---- MODULE Spec2Model ----
(***************************************************************************)
(* Model of platformio/commands/check/command.py: the `check` command.     *)
(* cli() drives the environment x tool matrix, records one result per      *)
(* pair, renders the results (JSON document or human summary) and then     *)
(* decides the exit status.  print_defects_stats() builds the per-         *)
(* component severity histogram with the ancestor roll-up walk.            *)
(*                                                                         *)
(* Strings that the code inspects character by character (paths) are       *)
(* sequences of one-character strings; Python dicts are functions whose    *)
(* DOMAIN is the set of keys present.                                      *)
(***************************************************************************)
EXTENDS Integers, Sequences, FiniteSets, TLC

VARIABLES
    config,        \* ProjectConfig: [envs, default_envs, options]
    environment,   \* -e/--environment (a tuple; only membership is used)
    severity,      \* --severity
    silent,        \* -s/--silent
    json_output,   \* --json-output
    project_dir,   \* what get_project_dir() returns
    results,       \* the list `results` of cli()
    pc,            \* position of the command
    ei,            \* index of the current environment in config.envs()
    ti,            \* index of the current tool in the environment's list
    calls,         \* the adapter invocations made so far, in order
    components,    \* print_defects_stats: dict component -> Counter
    ri,            \* print_defects_stats: index of the current result
    di,            \* print_defects_stats: index of the current defect
    component,     \* print_defects_stats: the loop variable `component`
    credited,      \* _append_defect calls made for the current defect
    total,         \* print_defects_stats: the "Total" row
    summary,       \* print_check_summary: status column and counters
    document,      \* what --json-output echoes
    exit_code      \* -1 while running, 0 normal return, 1 ReturnErrorCode(1)

vars == <<config, environment, severity, silent, json_output,
          project_dir, results, pc, ei, ti, calls, components, ri, di,
          component, credited, total, summary, document, exit_code>>

invocation == <<config, environment, severity, silent, json_output,
                project_dir>>
loopVars == <<results, ei, ti, calls>>
statsVars == <<components, ri, di, component, credited, total>>

----------------------------------------------------------------------------
(* Bounds *)

MaxDefects == 1      \* defects the adapters of one command report in all
MaxCount == 3        \* histogram counts are exact below MaxCount
MaxResults == 2      \* length of the list handed to print_defects_stats alone

----------------------------------------------------------------------------
(* Python helpers *)

None == <<"None">>

DictGet(d, k, default) == IF k \in DOMAIN d THEN d[k] ELSE default

Truthy(seq) == seq # None /\ seq # <<>>

Or(a, b) == IF Truthy(a) THEN a ELSE b

Contains(seq, x) == \E i \in 1..Len(seq) : seq[i] = x

Min(a, b) == IF a < b THEN a ELSE b

----------------------------------------------------------------------------
(* os.path on POSIX *)

Sep == "/"

LastSep(p) ==
    IF Contains(p, Sep)
    THEN CHOOSE i \in 1..Len(p) :
             p[i] = Sep /\ \A j \in (i+1)..Len(p) : p[j] # Sep
    ELSE 0

AllSeps(s) == \A i \in 1..Len(s) : s[i] = Sep

RECURSIVE RStripSep(_)
RStripSep(s) ==
    IF s # <<>> /\ s[Len(s)] = Sep THEN RStripSep(SubSeq(s, 1, Len(s) - 1))
    ELSE s

dirname(p) ==
    LET head == SubSeq(p, 1, LastSep(p))
    IN  IF head # <<>> /\ ~AllSeps(head) THEN RStripSep(head) ELSE head

startswith(s, prefix) ==
    Len(prefix) <= Len(s) /\ SubSeq(s, 1, Len(prefix)) = prefix

----------------------------------------------------------------------------
(* DefectItem *)

SEVERITY_LOW == "LOW"
SEVERITY_MEDIUM == "MEDIUM"
SEVERITY_HIGH == "HIGH"

SEVERITY_LABELS ==
    (SEVERITY_LOW :> "low") @@ (SEVERITY_MEDIUM :> "medium")
        @@ (SEVERITY_HIGH :> "high")

Severities == DOMAIN SEVERITY_LABELS

Labels == {SEVERITY_LABELS[s] : s \in Severities}

to_json(d) == [file |-> d.file, severity |-> SEVERITY_LABELS[d.severity]]

----------------------------------------------------------------------------
(* Inputs *)

Path_c == <<"c">>
Path_a_c == <<"a", "/", "c">>
Path_a_b_c == <<"a", "/", "b", "/", "c">>
Path_ab_c == <<"a", "b", "/", "c">>
Path_b_c == <<"b", "/", "c">>
Path_a_b_b_c == <<"a", "/", "b", "/", "b", "/", "c">>
Path_abs_a_c == <<"/", "a", "/", "c">>
Path_abs_a_b_c == <<"/", "a", "/", "b", "/", "c">>
Path_abs_b_c == <<"/", "b", "/", "c">>

Dir_a == <<"a">>
Dir_a_b == <<"a", "/", "b">>
Dir_abs_a == <<"/", "a">>

\* files the defects of a tool name
Files == {Path_c, Path_a_c, Path_a_b_c, Path_ab_c, Path_b_c, Path_a_b_b_c,
          Path_abs_a_c, Path_abs_a_b_c, Path_abs_b_c}

\* values get_project_dir() may return
ProjectDirs == {Dir_a, Dir_a_b, Dir_abs_a}

\* values get_project_dir() may return while the command runs
CommandProjectDirs == {Dir_a, Dir_abs_a}

DefectItems(files) == [file : files, severity : Severities]

RECURSIVE SeqsUpTo(_, _)
SeqsUpTo(S, n) ==
    IF n = 0 THEN {<<>>}
    ELSE LET shorter == SeqsUpTo(S, n - 1)
         IN  shorter \cup {Append(q, x) : q \in shorter, x \in S}

\* what one adapter invocation may report
AdapterFiles == {Path_a_b_c, Path_abs_a_b_c}
AdapterDefects == SeqsUpTo(DefectItems(AdapterFiles), MaxDefects)
ReturnCodes == {0, 1}
Durations == {1}

EnvNames == {"env_a", "env_b"}

EnvOrders == {<<"env_a">>, <<"env_a", "env_b">>, <<"env_b", "env_a">>}

EnvOptions ==
    [env_a : {[platform |-> "native"],
              [platform |-> "native", check_severity |-> <<"medium">>]},
     env_b : {[platform |-> "native",
               check_tool |-> <<"cppcheck", "pvs-studio">>,
               check_severity |-> <<"low", "medium">>]}]

Configs ==
    [envs : EnvOrders, default_envs : {<<>>, <<"env_a">>, <<"env_b">>},
     options : EnvOptions]

EnvironmentArgs == {<<>>, <<"env_a">>, <<"env_b">>}

SeverityArgs == {<<>>, <<"low">>}

----------------------------------------------------------------------------
(* cli() *)

envname == config.envs[ei]

env_options == config.options[envname]

\* variant: the default environments are not consulted
skipenv_NoDefaults == Truthy(environment) /\ ~Contains(environment, envname)

skipenv ==
    \/ Truthy(environment) /\ ~Contains(environment, envname)
    \/ ~Truthy(environment) /\ Truthy(config.default_envs)
         /\ ~Contains(config.default_envs, envname)

check_tool(e) == DictGet(config.options[e], "check_tool", <<"cppcheck">>)

\* variant: --severity wins over --silent
tool_options_CallerFirst ==
    [silent |-> silent,
     severity |-> Or(severity,
                     IF silent THEN <<SEVERITY_LABELS[SEVERITY_HIGH]>>
                     ELSE DictGet(config.options[config.envs[ei]],
                                  "check_severity", None))]

tool_options ==
    [silent |-> silent,
     severity |-> IF silent THEN <<SEVERITY_LABELS[SEVERITY_HIGH]>>
                  ELSE Or(severity, DictGet(env_options, "check_severity", None))]

\* variant: `break` instead of `continue`, the remaining tools of an
\* environment are dropped after its first one
RECURSIVE NextPos_Break(_, _)
NextPos_Break(e, t) ==
    IF e > Len(config.envs) THEN <<e, 1>>
    ELSE IF t = 0 /\ Len(check_tool(config.envs[e])) >= 1 THEN <<e, 1>>
    ELSE NextPos_Break(e + 1, 0)

\* the position of the two nested for loops that follows (e, t): the next
\* tool of environment e, or the first tool of the next environment that has
\* one; e = Len(config.envs) + 1 once both loops are exhausted
RECURSIVE NextPos(_, _)
NextPos(e, t) ==
    IF e > Len(config.envs) THEN <<e, 1>>
    ELSE IF t < Len(check_tool(config.envs[e])) THEN <<e, t + 1>>
    ELSE NextPos(e + 1, 0)

InLoop == pc = "loop" /\ ei <= Len(config.envs)

tool == check_tool(envname)[ti]

Advance ==
    /\ ei' = NextPos(ei, ti)[1]
    /\ ti' = NextPos(ei, ti)[2]

\* config.validate(environment): an unknown environment name is fatal
Validate ==
    /\ pc = "validate"
    /\ pc' = IF \A i \in 1..Len(environment) :
                   Contains(config.envs, environment[i])
             THEN "loop" ELSE "error"
    /\ UNCHANGED <<invocation, loopVars, statsVars, summary, document,
                   exit_code>>

\* lines 106-108: the environment is not selected
SkipTool ==
    /\ InLoop
    /\ skipenv
    /\ results' = Append(results, [env |-> envname, tool |-> tool])
    /\ Advance
    /\ UNCHANGED <<invocation, pc, calls, statsVars, summary, document,
                   exit_code>>

\* the number of defects recorded so far
RECURSIVE Reported(_)
Reported(rs) ==
    IF rs = <<>> THEN 0
    ELSE Len(DictGet(Head(rs), "defects", <<>>)) + Reported(Tail(rs))

\* variant: the defects are not looked at
Succeeded_RcOnly(rc, defects) == rc = 0

Succeeded(rc, defects) ==
    rc = 0 /\ ~\E i \in 1..Len(defects) : defects[i].severity = SEVERITY_HIGH

\* lines 109-133: the adapter is built and run, the result is recorded
RunTool ==
    /\ InLoop
    /\ ~skipenv
    /\ \E rc \in ReturnCodes, defects \in AdapterDefects, duration \in Durations :
         /\ Reported(results) + Len(defects) <= MaxDefects
         /\ calls' = Append(calls, [env |-> envname, tool |-> tool,
                                    options |-> tool_options,
                                    rc |-> rc, defects |-> defects])
         /\ results' = Append(results,
                [env |-> envname, tool |-> tool, duration |-> duration,
                 defects |-> defects, succeeded |-> Succeeded(rc, defects)])
    /\ Advance
    /\ UNCHANGED <<invocation, pc, statsVars, summary, document, exit_code>>

\* the adapter raises: the exception leaves cli()
ToolRaises ==
    /\ InLoop
    /\ ~skipenv
    /\ pc' = "error"
    /\ UNCHANGED <<invocation, loopVars, statsVars, summary, document,
                   exit_code>>

LoopDone == pc = "loop" /\ ei > Len(config.envs)

Has(item, k) == k \in DOMAIN item

\* variant: "ignored" is computed after "succeeded" has been overwritten
JsonItem_IgnoredLate(item) ==
    ("ignored" :> FALSE)
    @@ ("succeeded" :> ("succeeded" \in DOMAIN item /\ item.succeeded))
    @@ ("defects" :> LET ds == DictGet(item, "defects", <<>>)
                     IN  [i \in 1..Len(ds) |-> to_json(ds[i])])
    @@ item

\* results_to_json: item.update({...}) on every item of `raw`
JsonItem(item) ==
    ("ignored" :> ~Has(item, "succeeded"))
    @@ ("succeeded" :> (Has(item, "succeeded") /\ item.succeeded))
    @@ ("defects" :> LET ds == DictGet(item, "defects", <<>>)
                     IN  [i \in 1..Len(ds) |-> to_json(ds[i])])
    @@ item

results_to_json(raw) == [i \in 1..Len(raw) |-> JsonItem(raw[i])]

\* lines 135-136: the items of `results` are updated in place and echoed
RenderJson ==
    /\ LoopDone
    /\ json_output
    /\ results' = results_to_json(results)
    /\ document' = results'
    /\ pc' = "evaluate"
    /\ UNCHANGED <<invocation, ei, ti, calls, statsVars, summary, exit_code>>

\* lines 135-138 with --silent and without --json-output: nothing is printed
SkipReport ==
    /\ LoopDone
    /\ ~json_output
    /\ silent
    /\ pc' = "evaluate"
    /\ UNCHANGED <<invocation, loopVars, statsVars, summary, document,
                   exit_code>>

----------------------------------------------------------------------------
(* print_defects_stats() *)

DefectsOf(r) == DictGet(results[r], "defects", <<>>)

\* the position of the loops of lines 184-185 that follows (r, d)
RECURSIVE NextDefect(_, _)
NextDefect(r, d) ==
    IF r > Len(results) THEN <<r, 1>>
    ELSE IF d < Len(DefectsOf(r)) THEN <<r, d + 1>>
    ELSE NextDefect(r + 1, 0)

defect == DefectsOf(ri)[di]

EmptyDict == [k \in {} |-> 0]

\* Counter arithmetic: n + 1, exact below MaxCount; from MaxCount on only the
\* parity of the count is kept (MaxCount, MaxCount + 1, MaxCount, ...), so
\* that an endless run of increments is an endless run of changes
Incr(n) == IF n <= MaxCount THEN n + 1 ELSE MaxCount

\* _append_defect(component, defect)
_append_defect(comps, c, d) ==
    LET label == SEVERITY_LABELS[d.severity]
        counter == IF c \in DOMAIN comps THEN comps[c] ELSE EmptyDict
        updated == [l \in DOMAIN counter \cup {label} |->
                      IF l = label
                      THEN Incr(DictGet(counter, l, 0))
                      ELSE counter[l]]
    IN  [k \in DOMAIN comps \cup {c} |-> IF k = c THEN updated ELSE comps[k]]

\* the record of the _append_defect calls made for one defect; 2 means
\* "twice or more"
Credit(cr, c) ==
    [k \in DOMAIN cr \cup {c} |->
        IF k = c THEN Min(DictGet(cr, c, 0) + 1, 2) ELSE cr[k]]

\* print_check_summary, lines 217-224: print_defects_stats(results) starts
BeginSummary ==
    /\ LoopDone
    /\ ~json_output
    /\ ~silent
    /\ pc' = "stats"
    /\ components' = EmptyDict
    /\ ri' = NextDefect(1, 0)[1]
    /\ di' = NextDefect(1, 0)[2]
    /\ UNCHANGED <<invocation, loopVars, component, credited, total, summary,
                   document, exit_code>>

\* lines 185-189: the immediate component of the next defect
StatsDefect ==
    /\ pc = "stats"
    /\ ri <= Len(results)
    /\ LET c == IF dirname(defect.file) # <<>> THEN dirname(defect.file)
                ELSE defect.file
       IN  /\ component' = c
           /\ components' = _append_defect(components, c, defect)
           /\ credited' = Credit(EmptyDict, c)
           /\ IF startswith(c, project_dir)
              THEN pc' = "walk" /\ UNCHANGED <<ri, di>>
              ELSE /\ pc' = "stats"
                   /\ ri' = NextDefect(ri, di)[1]
                   /\ di' = NextDefect(ri, di)[2]
    /\ UNCHANGED <<invocation, loopVars, total, summary, document, exit_code>>

\* lines 190-192: one iteration of the ancestor walk
WalkStep ==
    /\ pc = "walk"
    /\ Contains(component, Sep)
    /\ component' = dirname(component)
    /\ components' = _append_defect(components, component', defect)
    /\ credited' = Credit(credited, component')
    /\ UNCHANGED <<invocation, loopVars, pc, ri, di, total, summary, document,
                   exit_code>>

\* line 190: no separator is left, the walk is over
WalkExit ==
    /\ pc = "walk"
    /\ ~Contains(component, Sep)
    /\ pc' = "stats"
    /\ ri' = NextDefect(ri, di)[1]
    /\ di' = NextDefect(ri, di)[2]
    /\ UNCHANGED <<invocation, loopVars, components, component, credited,
                   total, summary, document, exit_code>>

\* severity_labels of lines 197-198: the columns, highest severity first
severity_labels ==
    <<SEVERITY_LABELS[SEVERITY_HIGH], SEVERITY_LABELS[SEVERITY_MEDIUM],
      SEVERITY_LABELS[SEVERITY_LOW]>>

RECURSIVE SumColumn(_, _, _)
SumColumn(comps, keys, s) ==
    IF keys = {} THEN 0
    ELSE LET k == CHOOSE x \in keys : TRUE
         IN  DictGet(comps[k], s, 0) + SumColumn(comps, keys \ {k}, s)

\* line 204: every column summed over the rows of tabular_data
TotalRow(comps) ==
    [i \in 1..Len(severity_labels) |->
        SumColumn(comps, DOMAIN comps, severity_labels[i])]

\* lines 194-213: the table is built and printed, or nothing is printed
StatsTable ==
    /\ pc = "stats"
    /\ ri > Len(results)
    /\ total' = IF DOMAIN components = {} THEN <<>> ELSE TotalRow(components)
    /\ pc' = "summary"
    /\ UNCHANGED <<invocation, loopVars, components, ri, di, component,
                   credited, summary, document, exit_code>>

----------------------------------------------------------------------------
(* print_check_summary(), lines 226-254 *)

IsFailed(r) == Has(r, "succeeded") /\ r.succeeded = FALSE

IsIgnored(r) == ~Has(r, "succeeded")

StatusOf(r) ==
    IF IsFailed(r) THEN "FAILED" ELSE IF IsIgnored(r) THEN "IGNORED"
    ELSE "PASSED"

RECURSIVE SumDuration(_)
SumDuration(rs) ==
    IF rs = <<>> THEN 0
    ELSE DictGet(Head(rs), "duration", 0) + SumDuration(Tail(rs))

PrintCheckSummary ==
    /\ pc = "summary"
    /\ summary' =
         [status |-> [i \in 1..Len(results) |-> StatusOf(results[i])],
          failed_nums |->
              Cardinality({i \in 1..Len(results) : IsFailed(results[i])}),
          succeeded_nums |->
              Cardinality({i \in 1..Len(results) :
                              StatusOf(results[i]) = "PASSED"}),
          duration |-> SumDuration(results)]
    /\ pc' = "evaluate"
    /\ UNCHANGED <<invocation, loopVars, statsVars, document, exit_code>>

----------------------------------------------------------------------------
(* cli(), lines 140-142 *)

command_failed == \E i \in 1..Len(results) : IsFailed(results[i])

Evaluate ==
    /\ pc = "evaluate"
    /\ exit_code' = IF command_failed THEN 1 ELSE 0
    /\ pc' = "done"
    /\ UNCHANGED <<invocation, loopVars, statsVars, summary, document>>

----------------------------------------------------------------------------
(* Specifications *)

NoSummary ==
    [status |-> <<>>, failed_nums |-> 0, succeeded_nums |-> 0, duration |-> 0]

StatsIdle ==
    /\ components = EmptyDict
    /\ ri = 1
    /\ di = 1
    /\ component = <<>>
    /\ credited = EmptyDict
    /\ total = <<>>

\* the command starts: options parsed, configuration loaded
Init ==
    /\ config \in Configs
    /\ environment \in EnvironmentArgs
    /\ severity \in SeverityArgs
    /\ silent \in BOOLEAN
    /\ json_output \in BOOLEAN
    /\ project_dir \in CommandProjectDirs
    /\ results = <<>>
    /\ pc = "validate"
    /\ ei = NextPos(1, 0)[1]
    /\ ti = NextPos(1, 0)[2]
    /\ calls = <<>>
    /\ StatsIdle
    /\ summary = NoSummary
    /\ document = <<>>
    /\ exit_code = -1

Next ==
    \/ Validate
    \/ SkipTool
    \/ RunTool
    \/ ToolRaises
    \/ RenderJson
    \/ SkipReport
    \/ BeginSummary
    \/ StatsDefect
    \/ WalkStep
    \/ WalkExit
    \/ StatsTable
    \/ PrintCheckSummary
    \/ Evaluate

Spec == Init /\ [][Next]_vars

\* print_defects_stats(results) on its own: any list of results, read under
\* any project directory
StatsResults ==
    {[env |-> "env_a", tool |-> "cppcheck"]}
    \cup {[env |-> "env_a", tool |-> "cppcheck", duration |-> 1,
           defects |-> ds, succeeded |-> Succeeded(0, ds)] :
              ds \in SeqsUpTo(DefectItems(Files), 1)}

StatsConfig ==
    [envs |-> <<"env_a">>, default_envs |-> <<>>,
     options |-> [env_a |-> [platform |-> "native"],
                  env_b |-> [platform |-> "native",
                             check_tool |-> <<"cppcheck", "pvs-studio">>,
                             check_severity |-> <<"low", "medium">>]]]

InitStats ==
    /\ config = StatsConfig
    /\ environment = <<>>
    /\ severity = <<>>
    /\ silent = FALSE
    /\ json_output = FALSE
    /\ project_dir \in ProjectDirs
    /\ results \in SeqsUpTo(StatsResults, MaxResults)
    /\ pc = "stats"
    /\ ei = Len(config.envs) + 1
    /\ ti = 1
    /\ calls = <<>>
    /\ components = EmptyDict
    /\ ri = NextDefect(1, 0)[1]
    /\ di = NextDefect(1, 0)[2]
    /\ component = <<>>
    /\ credited = EmptyDict
    /\ total = <<>>
    /\ summary = NoSummary
    /\ document = <<>>
    /\ exit_code = -1

NextStats ==
    \/ StatsDefect
    \/ WalkStep
    \/ WalkExit
    \/ StatsTable

SpecStats == InitStats /\ [][NextStats]_vars

\* print_defects_stats is straight-line sequential code: whenever a step of
\* it can be taken, it is taken
FairSpecStats == SpecStats /\ WF_vars(NextStats)

----------------------------------------------------------------------------
(* Properties *)

HasHigh(defects) ==
    \E i \in 1..Len(defects) : defects[i].severity = SEVERITY_HIGH

CallsFor(e, t) == {i \in 1..Len(calls) : calls[i].env = e /\ calls[i].tool = t}

ResultsFor(e, t) ==
    {j \in 1..Len(results) : results[j].env = e /\ results[j].tool = t}

\* the outcome the adapter's answer calls for
RunFailed(i) == calls[i].rc # 0 \/ HasHigh(calls[i].defects)

\* C1: every pair the loop has run is recorded once, as failed exactly when
\* the adapter's return code is non-zero or one of its defects is HIGH, and
\* as succeeded otherwise
C1_OutcomeIffRcOrHigh ==
    \A i \in 1..Len(calls) :
        /\ Cardinality(ResultsFor(calls[i].env, calls[i].tool)) = 1
        /\ \A j \in ResultsFor(calls[i].env, calls[i].tool) :
              /\ Has(results[j], "succeeded")
              /\ results[j].succeeded = ~RunFailed(i)

\* a run with return code 0 and a HIGH defect is recorded as failed, and a
\* run with return code 0 and a lower defect as succeeded
C1_Witness ==
    \E i \in 1..Len(calls) :
        /\ calls[i].rc = 0
        /\ HasHigh(calls[i].defects)
        /\ \E j \in ResultsFor(calls[i].env, calls[i].tool) :
              IsFailed(results[j])

\* C2: once the command has finished, in every output mode, it has raised
\* ReturnErrorCode(1) exactly when some pair that was run failed; skipped
\* pairs do not count
C2_FailureIffSomeRunFailed ==
    pc = "done" =>
        (exit_code = 1 <=> \E i \in 1..Len(calls) : RunFailed(i))

\* the environment selection rule as the specification words it
Active(e) ==
    \/ environment # <<>> /\ Contains(environment, e)
    \/ environment = <<>>
         /\ (config.default_envs = <<>> \/ Contains(config.default_envs, e))

\* C3: the adapter is never invoked for an inactive environment; when the
\* loop is over every tool of an inactive environment has exactly one result
\* with the keys env and tool only, and every tool of an active environment
\* has been run exactly once
C3_Selection ==
    /\ \A i \in 1..Len(calls) : Active(calls[i].env)
    /\ LoopDone =>
         \A k \in 1..Len(config.envs) :
            LET e == config.envs[k]
            IN  \A t \in 1..Len(check_tool(e)) :
                   LET tl == check_tool(e)[t]
                   IN  IF Active(e)
                       THEN Cardinality(CallsFor(e, tl)) = 1
                       ELSE /\ CallsFor(e, tl) = {}
                            /\ Cardinality(ResultsFor(e, tl)) = 1
                            /\ \A j \in ResultsFor(e, tl) :
                                  DOMAIN results[j] = {"env", "tool"}

\* env_a (cppcheck) requested, env_b (cppcheck, pvs-studio) configured: one
\* run and two skipped results
C3_Witness ==
    /\ LoopDone
    /\ environment = <<"env_a">>
    /\ config.envs = <<"env_a", "env_b">>
    /\ Len(calls) = 1
    /\ Len(results) = 3
    /\ ~Has(results[2], "succeeded")
    /\ ~Has(results[3], "succeeded")

\* the (environment, tool) pairs of the configuration, in declared order
RECURSIVE Matrix(_)
Matrix(k) ==
    IF k > Len(config.envs) THEN <<>>
    ELSE [t \in 1..Len(check_tool(config.envs[k])) |->
             <<config.envs[k], check_tool(config.envs[k])[t]>>]
         \o Matrix(k + 1)

PairsOf(rs) == [j \in 1..Len(rs) |-> <<rs[j].env, rs[j].tool>>]

\* C4: as long as no adapter raises, the results are at every moment the
\* first pairs of the matrix in declared order, the loop only appends to
\* them, the loop ends with one result per pair whatever the outcomes were,
\* and the exit status is decided only after that
C4_MatrixInOrder ==
    /\ [](/\ PairsOf(results) = SubSeq(Matrix(1), 1, Len(results))
          /\ LoopDone => Len(results) = Len(Matrix(1))
          /\ exit_code # -1 => Len(results) = Len(Matrix(1)))
    /\ [][InLoop => \/ results' = results
                    \/ /\ Len(results') = Len(results) + 1
                       /\ SubSeq(results', 1, Len(results)) = results]_vars

\* the first pair failed and the two later pairs were still run and recorded
\* before the command failed
C4_Witness ==
    /\ pc = "done"
    /\ exit_code = 1
    /\ Len(results) = 3
    /\ Len(calls) = 3
    /\ calls[1].rc = 1

\* the fields of a result the claims speak of
View(r) ==
    [env |-> r.env, tool |-> r.tool, outcome |-> StatusOf(r),
     duration |-> DictGet(r, "duration", -1),
     defects |-> DictGet(r, "defects", <<>>)]

\* C5: once the loop is over, no rendering step changes the environment,
\* tool, outcome, duration or defects of any result
C5_RenderingOnlyReads ==
    [][pc # "validate" /\ ~InLoop =>
          /\ Len(results') = Len(results)
          /\ \A j \in 1..Len(results) : View(results'[j]) = View(results[j])]_vars

\* C7: the document has, for every pair, ignored = true exactly when the pair
\* was skipped and succeeded = true exactly when it was run and did not fail;
\* skipped pairs have an empty defects list
C7_JsonFlags ==
    pc \in {"evaluate", "done"} /\ json_output =>
        /\ Len(document) = Len(Matrix(1))
        /\ \A j \in 1..Len(document) :
              LET run == CallsFor(document[j].env, document[j].tool)
              IN  /\ document[j].ignored = (run = {})
                  /\ document[j].succeeded =
                        (run # {} /\ \A i \in run : ~RunFailed(i))
                  /\ document[j].ignored => ~document[j].succeeded
                  /\ run = {} => document[j].defects = <<>>

\* a document with a skipped pair and a failed pair
C7_Witness ==
    /\ pc = "done"
    /\ json_output
    /\ \E j \in 1..Len(document) :
          document[j].ignored /\ ~document[j].succeeded
    /\ \E j \in 1..Len(document) :
          ~document[j].ignored /\ ~document[j].succeeded
    /\ \E j \in 1..Len(document) : document[j].succeeded

\* C8: the severity filter handed to the adapter is ["high"] in silent mode,
\* else the caller's --severity when given, else the environment's
\* check_severity (None when it declares none)
C8_SeverityFilter ==
    \A i \in 1..Len(calls) :
        LET declared == config.options[calls[i].env]
            handed == calls[i].options.severity
        IN  /\ silent => handed = <<"high">>
            /\ ~silent /\ severity # <<>> => handed = severity
            /\ ~silent /\ severity = <<>> =>
                  handed = IF "check_severity" \in DOMAIN declared
                           THEN declared.check_severity ELSE None

\* a silent run for which both the caller and the environment asked for
\* other severities
C8_Witness ==
    /\ silent
    /\ severity = <<"low">>
    /\ \E i \in 1..Len(calls) :
          /\ "check_severity" \in DOMAIN config.options[calls[i].env]
          /\ calls[i].options.severity = <<"high">>

\* the file lies inside the project root
Inside(file, root) ==
    startswith(file, root \o <<Sep>>) /\ Len(file) > Len(root) + 1

\* the directories from the file's parent directory up to the project root
AncestorsUpTo(file, root) ==
    LET d == dirname(file)
    IN  {SubSeq(d, 1, n) : n \in {m \in Len(root)..Len(d) :
                                     m = Len(d) \/ d[m + 1] = Sep}}

\* C6: for a defect whose file lies inside the project root, the buckets
\* credited are the directories from the file's parent up to the project
\* root, each exactly once: never a bucket above the root, never twice, and
\* all of them once the walk is over
C6_RollUpWithinRoot ==
    pc = "walk" /\ Inside(defect.file, project_dir) =>
        /\ \A k \in DOMAIN credited :
              k \in AncestorsUpTo(defect.file, project_dir) /\ credited[k] = 1
        /\ ~Contains(component, Sep) =>
              DOMAIN credited = AncestorsUpTo(defect.file, project_dir)

\* the number of defects of all results with the severity label s
DefectCount(s) ==
    Cardinality({rd \in (1..Len(results)) \X (1..MaxDefects + 1) :
                    /\ rd[2] <= Len(DefectsOf(rd[1]))
                    /\ SEVERITY_LABELS[DefectsOf(rd[1])[rd[2]].severity] = s})

\* C9: in the Total row every defect counts exactly once in the column of
\* its severity
C9_TotalCountsEachDefectOnce ==
    pc = "summary" /\ total # <<>> =>
        \A i \in 1..Len(severity_labels) :
            total[i] = DefectCount(severity_labels[i])

\* C10: the aggregation pass finishes whatever the defects' file paths are
C10_StatsTerminates == <>(pc = "summary")

====
